---- MODULE Spec2Model ----
(***************************************************************************)
(* Model of the provider/model router (src/src/model_router.py), its CLI   *)
(* (src/scripts/resolve_model.py) and the Discord bot runtime               *)
(* (src/src/discord_bot_runtime.py).                                        *)
(*                                                                         *)
(* Python values are encoded as follows.  The empty string "" stands for   *)
(* every falsy string-valued input (None, a missing key, ""): the code     *)
(* only ever tests such values for truthiness.  A (provider, model) tuple  *)
(* is the TLA+ tuple <<provider, model>>.  A raised exception is an        *)
(* outcome record with status "raised" and the exception class in err.     *)
(***************************************************************************)
EXTENDS Integers, Sequences, FiniteSets, TLC

\* ------------------------------------------------------------- bounds
\* Longest "fallbacks" list of a role in the catalogs explored.
MaxFallbacks == 2

\* ------------------------------------------------------------ universe
Providers == {"anthropic", "ollama"}
Models == {"claude-x", "qwen"}
RoleNames == {"ace", "worker"}
None == ""

\* The (provider, model) pairs the catalogs' roles and the callers name.
Pairs == {<<"anthropic", "claude-x">>, <<"anthropic", "qwen">>, <<"ollama", "qwen">>}

\* {"provider": ..., "model": ...} entries of a role: the pairs, and entries
\* lacking the provider or the model.
PrimaryEntries == Pairs \cup {<<None, "qwen">>, <<"anthropic", None>>}
FallbackEntries == Pairs \cup {<<None, "qwen">>}

RECURSIVE SeqsUpTo(_, _)
SeqsUpTo(S, n) ==
    IF n = 0 THEN {<<>>}
    ELSE LET shorter == SeqsUpTo(S, n - 1)
         IN shorter \cup {Append(s, e) : s \in shorter, e \in S}

\* A provider entry of the catalog; present = FALSE is a provider the
\* catalog does not list.
AbsentProvider ==
    [present |-> FALSE, enabled |-> FALSE, models |-> {},
     auth_env |-> <<>>, base_url_env |-> None]
ProviderEntry(enabled, models, auth_env, base_url_env) ==
    [present |-> TRUE, enabled |-> enabled, models |-> models,
     auth_env |-> auth_env, base_url_env |-> base_url_env]
AnthropicCfgs ==
    {AbsentProvider,
     ProviderEntry(FALSE, {"claude-x"}, <<"ANTHROPIC_API_KEY">>, None),
     ProviderEntry(TRUE, {"claude-x"}, <<"ANTHROPIC_API_KEY">>, None),
     ProviderEntry(TRUE, {}, <<"ANTHROPIC_API_KEY">>, None)}
OllamaCfgs ==
    {ProviderEntry(e, {"qwen"}, <<>>, "OLLAMA_BASE_URL") : e \in BOOLEAN}

\* A role entry of the catalog; present = FALSE is an undeclared role.
AbsentRole == [present |-> FALSE, primary |-> <<None, None>>, fallbacks |-> <<>>]
AceCfgs ==
    {AbsentRole}
    \cup {[present |-> TRUE, primary |-> p, fallbacks |-> f] :
            p \in PrimaryEntries, f \in SeqsUpTo(FallbackEntries, MaxFallbacks)}
WorkerCfgs ==
    {[present |-> TRUE, primary |-> <<"ollama", "qwen">>, fallbacks |-> <<>>]}

\* The catalog's "aliases" section (name -> provider/model), the same in
\* every catalog explored; a caller passes an alias name as requested_model.
Aliases == [fast |-> <<"ollama", "qwen">>]
AliasNames == DOMAIN Aliases

\* defaults.role: None stands for a catalog without that key.
DefaultRoles == {None, "worker"}

Catalogs ==
    {[providers |-> [p \in Providers |->
                        IF p = "anthropic" THEN a ELSE o],
      roles |-> [r \in RoleNames |-> IF r = "ace" THEN ra ELSE rw],
      defaultRole |-> d] :
        a \in AnthropicCfgs, o \in OllamaCfgs,
        ra \in AceCfgs, rw \in WorkerCfgs, d \in DefaultRoles}

\* The process environment: each variable's text, Unset when it is not set.
Unset == "<unset>"
RequiredEnvs ==
    <<"ANTHROPIC_TOKEN", "GOOGLE_API_KEY", "OLLAMA_BASE_URL", "DISCORD_BOT_TOKEN",
      "DISCORD_GUILD_ID", "INFERENCE_TIMEOUT", "FALLBACK_RETRY_COUNT">>
EnvNames == {RequiredEnvs[i] : i \in DOMAIN RequiredEnvs} \cup {"ANTHROPIC_API_KEY"}
NumericEnvs == {"INFERENCE_TIMEOUT", "FALLBACK_RETRY_COUNT"}
GoodEnv == [n \in EnvNames |-> IF n \in NumericEnvs THEN "30" ELSE "set"]
EnvChoices ==
    {GoodEnv, [n \in EnvNames |-> Unset]}
    \cup {[GoodEnv EXCEPT ![n] = v] : n \in EnvNames, v \in {Unset, "", "abc"}}

VARIABLES
    config,      \* the catalog (config/providers.json, parsed)
    fileState,   \* "ok" | "missing" | "invalid": state of the catalog file
    env,         \* the process environment
    ollama,      \* what a GET against the local runtime's /api/tags ends in
    pc,          \* "idle" before the call of the run, "done" after it
    call,        \* the arguments of the call made
    out,         \* the outcome of its resolver call
    pre,         \* the outcome of its validate_environment call
    cli,         \* the CLI's exit
    bot,         \* the bot's BotRuntimeConfig and its alert webhook's condition
    req          \* the bot's requests: one record per Discord message

vars == <<config, fileState, env, ollama, pc, call, out, pre, cli, bot, req>>

\* ------------------------------------------------------------ outcomes
NoResolved == [provider |-> "", model |-> "", role |-> "", source |-> ""]

\* ResolvedModel(provider, model, role, source)
ResolvedModel(provider, model, role, source) ==
    [provider |-> provider, model |-> model, role |-> role, source |-> source]

Truthy(s) == s # ""

\* load_config: the parsed catalog, or ModelResolutionError when the file
\* is missing or is not JSON.
load_config ==
    IF fileState = "ok"
    THEN [status |-> "returned", err |-> "", value |-> config]
    ELSE [status |-> "raised", err |-> "ModelResolutionError", value |-> config]

\* config.get("providers", {}).get(provider)
_provider_cfg(cfg, provider) ==
    IF provider \in DOMAIN cfg.providers
    THEN cfg.providers[provider]
    ELSE AbsentProvider

_is_model_enabled_flipped(cfg, provider, model) ==
    LET provider_cfg == _provider_cfg(cfg, provider)
    IN IF ~provider_cfg.present \/ provider_cfg.enabled
       THEN FALSE
       ELSE model \in provider_cfg.models

_is_model_enabled_anyModel(cfg, provider, model) ==
    LET provider_cfg == _provider_cfg(cfg, provider)
    IN IF ~provider_cfg.present \/ ~provider_cfg.enabled
       THEN FALSE
       ELSE TRUE

_is_model_enabled(cfg, provider, model) ==
    LET provider_cfg == _provider_cfg(cfg, provider)
    IN IF ~provider_cfg.present \/ ~provider_cfg.enabled
       THEN FALSE
       ELSE model \in provider_cfg.models

\* config.get("roles", {}).get(role)
RoleCfg(cfg, role) ==
    IF role \in DOMAIN cfg.roles THEN cfg.roles[role] ELSE AbsentRole

\* _candidate_chain: the role's primary followed by its well-formed
\* fallbacks, or ModelResolutionError.
_candidate_chain(cfg, role) ==
    LET role_cfg == RoleCfg(cfg, role)
        primary == role_cfg.primary
    IN IF ~role_cfg.present
       THEN [status |-> "raised", err |-> "ModelResolutionError", chain |-> <<>>]
       ELSE IF ~Truthy(primary[1]) \/ ~Truthy(primary[2])
       THEN [status |-> "raised", err |-> "ModelResolutionError", chain |-> <<>>]
       ELSE [status |-> "returned", err |-> "",
             chain |-> <<primary>>
                       \o SelectSeq(role_cfg.fallbacks,
                                    LAMBDA fb : Truthy(fb[1]) /\ Truthy(fb[2]))]

\* The role resolved when the caller names none:
\* role or cfg.get("defaults", {}).get("role", "ace")
SelectedRole(cfg, role) ==
    IF Truthy(role) THEN role
    ELSE IF Truthy(cfg.defaultRole) THEN cfg.defaultRole ELSE "ace"

\* source = "primary" if idx == 0 else f"fallback_{idx}"
SourceTag_offByOne(idx) ==
    IF idx = 0 THEN "primary" ELSE "fallback_" \o ToString(idx - 1)

SourceTag(idx) ==
    IF idx = 0 THEN "primary" ELSE "fallback_" \o ToString(idx)

\* Outcome of a resolver call.  probed lists the chain candidates handed to
\* _is_model_enabled, in order; explicitProbed says whether the explicit
\* pair was; chainBuilt whether _candidate_chain was called.
Returned(value, probed, explicitProbed, chainBuilt) ==
    [status |-> "returned", err |-> "", msg |-> <<"", "">>, value |-> value,
     probed |-> probed, explicitProbed |-> explicitProbed,
     chainBuilt |-> chainBuilt]

Raised(err, msg, probed, explicitProbed, chainBuilt) ==
    [status |-> "raised", err |-> err, msg |-> msg, value |-> NoResolved,
     probed |-> probed, explicitProbed |-> explicitProbed,
     chainBuilt |-> chainBuilt]

\* The (provider, model) pairs a raised ModelResolutionError carries: its
\* only argument is the message text, which names the role and no pair.
ExceptionAttempted(outcome) == <<>>

NoOutcome ==
    [status |-> "none", err |-> "", msg |-> <<"", "">>, value |-> NoResolved,
     probed |-> <<>>, explicitProbed |-> FALSE, chainBuilt |-> FALSE]

\* cfg = config or load_config()
ConfigOrLoad(passCfg) ==
    IF passCfg
    THEN [status |-> "returned", err |-> "", value |-> config]
    ELSE load_config

\* The loop of resolve_runtime_model over enumerate(chain), from idx on.
RECURSIVE ProbeChain(_, _, _, _)
ProbeChain(cfg, chain, idx, probed) ==
    IF idx >= Len(chain)
    THEN [found |-> FALSE, idx |-> idx, probed |-> probed]
    ELSE LET cand == chain[idx + 1]
         IN IF _is_model_enabled(cfg, cand[1], cand[2])
            THEN [found |-> TRUE, idx |-> idx, probed |-> Append(probed, cand)]
            ELSE ProbeChain(cfg, chain, idx + 1, Append(probed, cand))

\* return ResolvedModel(requested_provider, requested_model, selected_role,
\* "explicit")
ExplicitResult_taggedPrimary(requested_provider, requested_model, selected_role) ==
    Returned(ResolvedModel(requested_provider, requested_model,
                           selected_role, "primary"),
             <<>>, TRUE, FALSE)

ExplicitResult(requested_provider, requested_model, selected_role) ==
    Returned(ResolvedModel(requested_provider, requested_model,
                           selected_role, "explicit"),
             <<>>, TRUE, FALSE)

resolve_runtime_model(passCfg, role, requested_provider, requested_model) ==
    LET loaded == ConfigOrLoad(passCfg)
    IN IF loaded.status = "raised"
       THEN Raised(loaded.err, <<"config", "">>, <<>>, FALSE, FALSE)
       ELSE
       LET cfg == loaded.value
           selected_role == SelectedRole(cfg, role)
           explicit == Truthy(requested_provider) /\ Truthy(requested_model)
       IN IF explicit /\ _is_model_enabled(cfg, requested_provider, requested_model)
          THEN ExplicitResult(requested_provider, requested_model, selected_role)
          ELSE
          LET built == _candidate_chain(cfg, selected_role)
          IN IF built.status = "raised"
             THEN Raised(built.err, <<"chain", selected_role>>, <<>>, explicit, TRUE)
             ELSE
             LET walk == ProbeChain(cfg, built.chain, 0, <<>>)
                 hit == built.chain[walk.idx + 1]
             IN IF walk.found
                THEN Returned(ResolvedModel(hit[1], hit[2], selected_role,
                                            SourceTag(walk.idx)),
                              walk.probed, explicit, TRUE)
                ELSE Raised("ModelResolutionError",
                            <<"no_available_model", selected_role>>,
                            walk.probed, explicit, TRUE)

\* set(tried or [])
ToSet_empty(list) == {}

ToSet(list) == {list[i] : i \in DOMAIN list}

\* The loop of resolve_with_retry over the chain, from position i on.
RECURSIVE RetryChain_ignoresTried(_, _, _, _, _)
RetryChain_ignoresTried(cfg, chain, tried_set, i, probed) ==
    IF i > Len(chain)
    THEN [found |-> FALSE, i |-> i, probed |-> probed]
    ELSE LET cand == chain[i]
         IN IF _is_model_enabled(cfg, cand[1], cand[2])
            THEN [found |-> TRUE, i |-> i, probed |-> Append(probed, cand)]
            ELSE RetryChain_ignoresTried(cfg, chain, tried_set, i + 1,
                                         Append(probed, cand))

RetryChain_firstOnly(cfg, chain, tried_set, i, probed) ==
    IF i > Len(chain)
    THEN [found |-> FALSE, i |-> i, probed |-> probed]
    ELSE LET cand == chain[i]
         IN IF cand \notin tried_set /\ _is_model_enabled(cfg, cand[1], cand[2])
            THEN [found |-> TRUE, i |-> i, probed |-> Append(probed, cand)]
            ELSE [found |-> FALSE, i |-> i, probed |-> Append(probed, cand)]

RECURSIVE RetryChain(_, _, _, _, _)
RetryChain(cfg, chain, tried_set, i, probed) ==
    IF i > Len(chain)
    THEN [found |-> FALSE, i |-> i, probed |-> probed]
    ELSE LET cand == chain[i]
         IN IF cand \in tried_set
            THEN RetryChain(cfg, chain, tried_set, i + 1, probed)
            ELSE IF _is_model_enabled(cfg, cand[1], cand[2])
            THEN [found |-> TRUE, i |-> i, probed |-> Append(probed, cand)]
            ELSE RetryChain(cfg, chain, tried_set, i + 1, Append(probed, cand))

\* return ResolvedModel(provider, model, role, "retry_fallback"), for the
\* candidate at chain position i (1 is the primary).
RetryResult_positionTagged(hit, role, i, probed) ==
    Returned(ResolvedModel(hit[1], hit[2], role, SourceTag(i - 1)),
             probed, FALSE, TRUE)

RetryResult(hit, role, i, probed) ==
    Returned(ResolvedModel(hit[1], hit[2], role, "retry_fallback"),
             probed, FALSE, TRUE)

resolve_with_retry(passCfg, role, tried) ==
    LET loaded == ConfigOrLoad(passCfg)
    IN IF loaded.status = "raised"
       THEN Raised(loaded.err, <<"config", "">>, <<>>, FALSE, FALSE)
       ELSE
       LET cfg == loaded.value
           tried_set == ToSet(tried)
           built == _candidate_chain(cfg, role)
       IN IF built.status = "raised"
          THEN Raised(built.err, <<"chain", role>>, <<>>, FALSE, TRUE)
          ELSE
          LET walk == RetryChain(cfg, built.chain, tried_set, 1, <<>>)
              hit == built.chain[walk.i]
          IN IF walk.found
             THEN RetryResult(hit, role, walk.i, walk.probed)
             ELSE Raised("ModelResolutionError", <<"exhausted", role>>,
                         walk.probed, FALSE, TRUE)

\* ------------------------------------------------------------ preflight
\* os.getenv(name): None (here "") when the variable is not set.
Getenv(name) == IF env[name] = Unset THEN None ELSE env[name]

\* os.getenv(name, default)
GetenvDefault(name, default) == IF env[name] = Unset THEN default ELSE env[name]

\* int(text): the texts of the environments explored that parse as integers.
IsIntText(text) == text \in {"3", "10", "30"}

\* What the GET against <base_url>/api/tags can end in (the variable ollama).
\*   "ok"       HTTP 200
\*   "status"   a 2xx other than 200
\*   "urlerror" urllib.error.URLError (refused, DNS, HTTP 4xx/5xx)
\*   "timeout"  TimeoutError
\*   "other"    any other exception urlopen lets through (ValueError for a
\*              base URL without a scheme, http.client.RemoteDisconnected)
ProbeOutcomes == {"ok", "status", "urlerror", "timeout", "other"}

\* _check_ollama_connectivity: None (here ""), an error text, or the
\* exception it does not catch.
_check_ollama_connectivity(probe) ==
    CASE probe = "ok" -> [status |-> "returned", err |-> "", value |-> None]
      [] probe = "status" ->
            [status |-> "returned", err |-> "", value |-> "Ollama returned HTTP"]
      [] probe \in {"urlerror", "timeout"} ->
            [status |-> "returned", err |-> "", value |-> "Cannot connect to Ollama"]
      [] OTHER -> [status |-> "raised", err |-> "Exception", value |-> None]

NoPreflight == [status |-> "none", err |-> "", failures |-> <<>>]

\* for env_name in required_envs: ...
RECURSIVE RequiredEnvFailures(_)
RequiredEnvFailures(i) ==
    IF i > Len(RequiredEnvs) THEN <<>>
    ELSE (IF Truthy(Getenv(RequiredEnvs[i]))
          THEN <<>>
          ELSE <<<<"missing_env", RequiredEnvs[i], "">>>>)
         \o RequiredEnvFailures(i + 1)

\* for auth_env in provider_cfg.get("auth_env", []): ...
RECURSIVE AuthEnvFailures(_, _, _)
AuthEnvFailures(provider_name, auth_env, i) ==
    IF i > Len(auth_env) THEN <<>>
    ELSE (IF Truthy(Getenv(auth_env[i]))
          THEN <<>>
          ELSE <<<<"provider_env", provider_name, auth_env[i]>>>>)
         \o AuthEnvFailures(provider_name, auth_env, i + 1)

\* The body of the loop over providers for one provider: the failures it
\* appends, or the exception the connectivity check lets through.
ProviderFailures(provider_name, provider_cfg, probe) ==
    IF ~provider_cfg.present \/ ~provider_cfg.enabled
    THEN [status |-> "returned", err |-> "", failures |-> <<>>]
    ELSE
    LET auth == AuthEnvFailures(provider_name, provider_cfg.auth_env, 1)
        base_url_env == provider_cfg.base_url_env
    IN IF ~Truthy(base_url_env)
       THEN [status |-> "returned", err |-> "", failures |-> auth]
       ELSE IF ~Truthy(Getenv(base_url_env))
       THEN [status |-> "returned", err |-> "",
             failures |-> Append(auth, <<"provider_env", provider_name, base_url_env>>)]
       ELSE IF provider_name # "ollama"
       THEN [status |-> "returned", err |-> "", failures |-> auth]
       ELSE LET checked == _check_ollama_connectivity(probe)
            IN IF checked.status = "raised"
               THEN [status |-> "raised", err |-> checked.err, failures |-> auth]
               ELSE IF Truthy(checked.value)
               THEN [status |-> "returned", err |-> "",
                     failures |-> Append(auth, <<"ollama", checked.value, "">>)]
               ELSE [status |-> "returned", err |-> "", failures |-> auth]

\* The order in which the catalog lists its providers and its roles.
ProviderOrder == <<"anthropic", "ollama">>
RoleOrder == <<"ace", "worker">>

\* for provider_name, provider_cfg in providers.items(): ...
RECURSIVE ProvidersFailures(_, _, _)
ProvidersFailures(cfg, probe, i) ==
    IF i > Len(ProviderOrder)
    THEN [status |-> "returned", err |-> "", failures |-> <<>>]
    ELSE LET this == ProviderFailures(ProviderOrder[i],
                                      cfg.providers[ProviderOrder[i]], probe)
         IN IF this.status = "raised" THEN this
            ELSE LET rest == ProvidersFailures(cfg, probe, i + 1)
                 IN [rest EXCEPT !.failures = this.failures \o rest.failures]

\* for role_name in cfg.get("roles", {}): try _candidate_chain ...
RECURSIVE RoleFailures(_, _)
RoleFailures(cfg, i) ==
    IF i > Len(RoleOrder) THEN <<>>
    ELSE (IF cfg.roles[RoleOrder[i]].present
             /\ _candidate_chain(cfg, RoleOrder[i]).status = "raised"
          THEN <<<<"role", RoleOrder[i], "">>>>
          ELSE <<>>)
         \o RoleFailures(cfg, i + 1)

\* validate_environment(config)
validate_environment(passCfg) ==
    LET loaded == ConfigOrLoad(passCfg)
    IN IF loaded.status = "raised"
       THEN [status |-> "raised", err |-> loaded.err, failures |-> <<>>]
       ELSE
       LET cfg == loaded.value
           required == RequiredEnvFailures(1)
       IN IF ~IsIntText(GetenvDefault("INFERENCE_TIMEOUT", "10"))
          THEN [status |-> "raised", err |-> "ValueError", failures |-> required]
          ELSE
          LET provs == ProvidersFailures(cfg, ollama, 1)
          IN IF provs.status = "raised"
             THEN [provs EXCEPT !.failures = required \o provs.failures]
             ELSE [status |-> "returned", err |-> "",
                   failures |-> required \o provs.failures \o RoleFailures(cfg, 1)]

\* ------------------------------------------------------------------ CLI
\* The exit of scripts/resolve_model.py: the code main() returns, what it
\* printed, and the exception that escaped main(), if one did (the
\* interpreter then ends the process with status 1).
NoExit == [code |-> -1, printed |-> "", uncaught |-> ""]

\* main() in preflight mode.
CliPreflight(validated) ==
    IF validated.status = "raised"
    THEN [code |-> 1, printed |-> "", uncaught |-> validated.err]
    ELSE IF Len(validated.failures) = 0
    THEN [code |-> 0, printed |-> "PREFLIGHT OK", uncaught |-> ""]
    ELSE [code |-> 1, printed |-> "PREFLIGHT FAILED", uncaught |-> ""]

\* (args.provider and not args.model) or (args.model and not args.provider)
PartialPair(provider, model) ==
    \/ Truthy(provider) /\ ~Truthy(model)
    \/ Truthy(model) /\ ~Truthy(provider)

\* main() in resolve mode, after the partial-pair check.
CliResolve_zeroOnError(resolved) ==
    IF resolved.status = "raised"
    THEN IF resolved.err = "ModelResolutionError"
         THEN [code |-> 0, printed |-> "ERROR", uncaught |-> ""]
         ELSE [code |-> 1, printed |-> "", uncaught |-> resolved.err]
    ELSE IF ~IsIntText(GetenvDefault("FALLBACK_RETRY_COUNT", "3"))
    THEN [code |-> 1, printed |-> "", uncaught |-> "ValueError"]
    ELSE [code |-> 0, printed |-> "RESOLVED", uncaught |-> ""]

CliResolve(resolved) ==
    IF resolved.status = "raised"
    THEN IF resolved.err = "ModelResolutionError"
         THEN [code |-> 1, printed |-> "ERROR", uncaught |-> ""]
         ELSE [code |-> 1, printed |-> "", uncaught |-> resolved.err]
    ELSE IF ~IsIntText(GetenvDefault("FALLBACK_RETRY_COUNT", "3"))
    THEN [code |-> 1, printed |-> "", uncaught |-> "ValueError"]
    ELSE [code |-> 0, printed |-> "RESOLVED", uncaught |-> ""]

\* scripts/resolve_model.py main(), with the parsed arguments.
CliMain(preflight, role, provider, model) ==
    /\ pc = "idle"
    /\ pc' = "done"
    /\ call' = [op |-> "cli", passCfg |-> FALSE, preflight |-> preflight,
                role |-> role, provider |-> provider, model |-> model,
                tried |-> <<>>, returns |-> 0]
    /\ IF preflight
       THEN /\ pre' = validate_environment(FALSE)
            /\ cli' = CliPreflight(pre')
            /\ out' = NoOutcome
       ELSE IF PartialPair(provider, model)
       THEN /\ pre' = NoPreflight
            /\ out' = NoOutcome
            /\ cli' = [code |-> 2, printed |-> "ERROR", uncaught |-> ""]
       ELSE /\ pre' = NoPreflight
            /\ out' = resolve_runtime_model(FALSE, role, provider, model)
            /\ cli' = CliResolve(out')
    /\ UNCHANGED <<config, fileState, env, ollama, bot, req>>

\* ---------------------------------------------------------- bot runtime
\* Discord messages handled concurrently (each in its own to_thread call).
NumRequests == 2
Requests == 1..NumRequests

\* BotRuntimeConfig (the fields the fallback path reads) and the condition
\* of the alert webhook:
\*   ""          DISCORD_ALERT_WEBHOOK is not set
\*   "malformed" a URL urllib.request.Request rejects (ValueError)
\*   "ok"        the POST ends in HTTP 200 or 204
\*   "status"    the POST ends in another 2xx
\*   "urlerror"  urllib.error.URLError (refused, DNS, HTTP 4xx/5xx)
\*   "timeout"   TimeoutError
\*   "other"     any other exception urlopen lets through
WebhookStates == {"", "malformed", "ok", "status", "urlerror", "timeout", "other"}
NoBot == [role |-> "ace", anthropic_key |-> "", alert_webhook |-> ""]

\* One request: pc is where its handler stands,
\*   "idle"   the message has not arrived
\*   "loop"   complete_with_fallback runs in its thread, before candidate idx
\*   "resume" the thread ended; on_message has not yet resumed
\*   "done"   on_message returned (or let an exception escape: unhandled)
\* invoked lists the candidates handed to invoke_candidate, errors the
\* errors list of complete_with_fallback, alerts the send_discord_alert
\* calls made for the request, sent the messages sent to the channel.
IdleRequest ==
    [pc |-> "idle", idx |-> 0, invoked |-> <<>>, errors |-> <<>>,
     status |-> "none", err |-> "", selected |-> <<"", "">>,
     alerts |-> <<>>, sent |-> <<>>, unhandled |-> ""]

\* send_discord_alert: the dict's "ok", or the exception it does not catch.
send_discord_alert(webhook_url) ==
    CASE webhook_url = "" -> [status |-> "returned", err |-> "", ok |-> FALSE]
      [] webhook_url = "ok" -> [status |-> "returned", err |-> "", ok |-> TRUE]
      [] webhook_url \in {"status", "urlerror", "timeout"} ->
            [status |-> "returned", err |-> "", ok |-> FALSE]
      [] webhook_url = "malformed" ->
            [status |-> "raised", err |-> "ValueError", ok |-> FALSE]
      [] OTHER -> [status |-> "raised", err |-> "Exception", ok |-> FALSE]

\* One send_discord_alert call as the Alert Sink sees it.
Alert(title, errors, role, sent) ==
    [title |-> title, errors |-> errors, role |-> role, result |-> sent]

\* role_candidates: the role's complete primary and fallback entries, or
\* ModelCallError (ModelResolutionError from load_config).
role_candidates_fallbacksFirst(role) ==
    LET loaded == load_config
    IN IF loaded.status = "raised"
       THEN [status |-> "raised", err |-> loaded.err, candidates |-> <<>>]
       ELSE
       LET role_cfg == RoleCfg(loaded.value, role)
           primary == role_cfg.primary
           candidates ==
               SelectSeq(role_cfg.fallbacks,
                         LAMBDA fb : Truthy(fb[1]) /\ Truthy(fb[2]))
               \o (IF Truthy(primary[1]) /\ Truthy(primary[2])
                   THEN <<primary>> ELSE <<>>)
       IN IF ~role_cfg.present
          THEN [status |-> "raised", err |-> "ModelCallError", candidates |-> <<>>]
          ELSE IF candidates = <<>>
          THEN [status |-> "raised", err |-> "ModelCallError", candidates |-> <<>>]
          ELSE [status |-> "returned", err |-> "", candidates |-> candidates]

role_candidates(role) ==
    LET loaded == load_config
    IN IF loaded.status = "raised"
       THEN [status |-> "raised", err |-> loaded.err, candidates |-> <<>>]
       ELSE
       LET role_cfg == RoleCfg(loaded.value, role)
           primary == role_cfg.primary
           candidates ==
               (IF Truthy(primary[1]) /\ Truthy(primary[2])
                THEN <<primary>> ELSE <<>>)
               \o SelectSeq(role_cfg.fallbacks,
                            LAMBDA fb : Truthy(fb[1]) /\ Truthy(fb[2]))
       IN IF ~role_cfg.present
          THEN [status |-> "raised", err |-> "ModelCallError", candidates |-> <<>>]
          ELSE IF candidates = <<>>
          THEN [status |-> "raised", err |-> "ModelCallError", candidates |-> <<>>]
          ELSE [status |-> "returned", err |-> "", candidates |-> candidates]

\* invoke_candidate: whether the call returns an answer; api_ok says
\* whether the provider's API answers the request, should one be sent.
invoke_candidate(candidate, api_ok) ==
    IF candidate[1] = "anthropic"
    THEN Truthy(bot.anthropic_key) /\ api_ok
    ELSE IF candidate[1] = "ollama"
    THEN api_ok
    ELSE FALSE

\* on_message up to the await: the guards, then complete_with_fallback is
\* handed to a thread, which first calls role_candidates(cfg.role).
OnMessage(r, addressed) ==
    /\ req[r].pc = "idle"
    /\ LET cands == role_candidates(bot.role)
       IN req' = [req EXCEPT ![r] =
                    IF ~addressed
                    THEN [@ EXCEPT !.pc = "done"]
                    ELSE IF cands.status = "raised"
                    THEN [@ EXCEPT !.pc = "resume", !.status = "raised",
                                   !.err = cands.err]
                    ELSE [@ EXCEPT !.pc = "loop"]]
    /\ UNCHANGED <<config, fileState, env, ollama, pc, call, out, pre, cli, bot>>

\* One iteration of the loop of complete_with_fallback.
InvokeCandidate_sharedFailures(r, api_ok) ==
    /\ req[r].pc = "loop"
    /\ LET candidates == role_candidates(bot.role).candidates
           candidate == candidates[req[r].idx + 1]
       IN /\ req[r].idx < Len(candidates)
          /\ req' = [q \in Requests |->
                IF q = r
                THEN IF invoke_candidate(candidate, api_ok)
                     THEN [req[q] EXCEPT !.pc = "resume", !.status = "returned",
                                         !.selected = candidate,
                                         !.invoked = Append(@, candidate)]
                     ELSE [req[q] EXCEPT !.idx = @ + 1,
                                         !.invoked = Append(@, candidate),
                                         !.errors = Append(@, candidate)]
                ELSE IF /\ ~invoke_candidate(candidate, api_ok)
                        /\ req[q].pc \in {"idle", "loop"}
                        /\ req[q].idx = req[r].idx
                     THEN [req[q] EXCEPT !.idx = @ + 1]
                     ELSE req[q]]
    /\ UNCHANGED <<config, fileState, env, ollama, pc, call, out, pre, cli, bot>>

InvokeCandidate(r, api_ok) ==
    /\ req[r].pc = "loop"
    /\ LET candidates == role_candidates(bot.role).candidates
           candidate == candidates[req[r].idx + 1]
       IN /\ req[r].idx < Len(candidates)
          /\ req' = [req EXCEPT ![r] =
                IF invoke_candidate(candidate, api_ok)
                THEN [@ EXCEPT !.pc = "resume", !.status = "returned",
                               !.selected = candidate,
                               !.invoked = Append(@, candidate)]
                ELSE [@ EXCEPT !.idx = @ + 1,
                               !.invoked = Append(@, candidate),
                               !.errors = Append(@, candidate)]]
    /\ UNCHANGED <<config, fileState, env, ollama, pc, call, out, pre, cli, bot>>

\* The end of complete_with_fallback after the loop: the alert, then
\* ModelCallError (or the exception send_discord_alert let through).
AllCandidatesFailed(r) ==
    /\ req[r].pc = "loop"
    /\ req[r].idx = Len(role_candidates(bot.role).candidates)
    /\ LET sent == send_discord_alert(bot.alert_webhook)
       IN req' = [req EXCEPT ![r] =
                    [@ EXCEPT !.pc = "resume", !.status = "raised",
                              !.err = IF sent.status = "raised"
                                      THEN sent.err ELSE "ModelCallError",
                              !.alerts = Append(@, Alert("Open Fall Triggered",
                                                         req[r].errors, bot.role,
                                                         sent))]]
    /\ UNCHANGED <<config, fileState, env, ollama, pc, call, out, pre, cli, bot>>

\* on_message after the await: the answer, or the except branch (the
\* failure message, then a second alert).
OnMessageResume(r) ==
    /\ req[r].pc = "resume"
    /\ LET sent == send_discord_alert(bot.alert_webhook)
       IN req' = [req EXCEPT ![r] =
                    IF req[r].status = "returned"
                    THEN [@ EXCEPT !.pc = "done", !.sent = Append(@, "answer")]
                    ELSE [@ EXCEPT !.pc = "done",
                                   !.sent = Append(@, "failure"),
                                   !.alerts = Append(@, Alert("ACE Discord Request Failed",
                                                              <<>>, "", sent)),
                                   !.unhandled = IF sent.status = "raised"
                                                 THEN sent.err ELSE ""]]
    /\ UNCHANGED <<config, fileState, env, ollama, pc, call, out, pre, cli, bot>>

\* The catalogs of the bot runs.
BotAnthropicCfgs ==
    {ProviderEntry(e, {"claude-x"}, <<"ANTHROPIC_API_KEY">>, None) : e \in BOOLEAN}
BotOllamaCfgs == {ProviderEntry(TRUE, {"qwen"}, <<>>, "OLLAMA_BASE_URL")}
BotAceCfgs ==
    {AbsentRole,
     [present |-> TRUE, primary |-> <<None, "qwen">>, fallbacks |-> <<>>],
     [present |-> TRUE, primary |-> <<"anthropic", "claude-x">>,
      fallbacks |-> <<>>],
     [present |-> TRUE, primary |-> <<"anthropic", "claude-x">>,
      fallbacks |-> <<<<"ollama", "qwen">>>>],
     [present |-> TRUE, primary |-> <<"anthropic", None>>,
      fallbacks |-> <<<<"ollama", "qwen">>>>],
     [present |-> TRUE, primary |-> <<"anthropic", "claude-x">>,
      fallbacks |-> <<<<"google", "gemini">>, <<"ollama", "qwen">>>>],
     [present |-> TRUE, primary |-> <<"ollama", "qwen">>,
      fallbacks |-> <<<<None, "qwen">>, <<"ollama", "qwen">>>>]}
BotCatalogs ==
    {[providers |-> [p \in Providers |->
                        IF p = "anthropic" THEN a ELSE o],
      roles |-> [r \in RoleNames |-> IF r = "ace" THEN ra ELSE rw],
      defaultRole |-> None] :
        a \in BotAnthropicCfgs, o \in BotOllamaCfgs,
        ra \in BotAceCfgs, rw \in WorkerCfgs}

\* ------------------------------------------------- single resolver calls
\* Longest pre-seeded "tried" list a caller of resolve_with_retry starts from.
MaxTried == 1

NoCall ==
    [op |-> "none", passCfg |-> FALSE, preflight |-> FALSE, role |-> None,
     provider |-> None, model |-> None, tried |-> <<>>, returns |-> 0]

\* A direct call of resolve_runtime_model(role, requested_provider,
\* requested_model, config).
ResolveRuntimeModel(passCfg, role, provider, model) ==
    /\ pc = "idle"
    /\ pc' = "done"
    /\ call' = [op |-> "resolve", passCfg |-> passCfg, preflight |-> FALSE,
                role |-> role, provider |-> provider, model |-> model,
                tried |-> <<>>, returns |-> 0]
    /\ out' = resolve_runtime_model(passCfg, role, provider, model)
    /\ UNCHANGED <<config, fileState, env, ollama, pre, cli, bot, req>>

\* A direct call of resolve_with_retry(role, error_reason, tried, config).
ResolveWithRetry(passCfg, role, tried) ==
    /\ pc = "idle"
    /\ pc' = "done"
    /\ out' = resolve_with_retry(passCfg, role, tried)
    /\ call' = [op |-> "retry", passCfg |-> passCfg, preflight |-> FALSE,
                role |-> role, provider |-> None, model |-> None,
                tried |-> tried,
                returns |-> IF out'.status = "returned" THEN 1 ELSE 0]
    /\ UNCHANGED <<config, fileState, env, ollama, pre, cli, bot, req>>

\* The caller-driven retry: the live call to the pair just returned failed,
\* so the caller adds it to tried and asks again.  call.returns counts the
\* calls of the loop that returned a pair.
RetryAfterFailure ==
    /\ pc = "done"
    /\ call.op = "retry"
    /\ out.status = "returned"
    /\ LET tried == Append(call.tried, <<out.value.provider, out.value.model>>)
       IN /\ out' = resolve_with_retry(call.passCfg, call.role, tried)
          /\ call' = [call EXCEPT !.tried = tried,
                                  !.returns = IF out'.status = "returned"
                                              THEN @ + 1 ELSE @]
    /\ UNCHANGED <<config, fileState, env, ollama, pc, pre, cli, bot, req>>

MissingCatalog ==
    [providers |-> [p \in Providers |-> AbsentProvider],
     roles |-> [r \in RoleNames |-> AbsentRole],
     defaultRole |-> None]

Init ==
    /\ \/ fileState = "ok" /\ config \in Catalogs
       \/ fileState \in {"missing", "invalid"} /\ config = MissingCatalog
    /\ env = GoodEnv
    /\ ollama = "ok"
    /\ pc = "idle"
    /\ call = NoCall
    /\ out = NoOutcome
    /\ pre = NoPreflight
    /\ cli = NoExit
    /\ bot = NoBot
    /\ req = [r \in Requests |-> IdleRequest]

Next ==
    \/ \E passCfg \in BOOLEAN, role \in RoleNames \cup {None},
          provider \in Providers \cup {None},
          model \in Models \cup AliasNames \cup {None} :
            ResolveRuntimeModel(passCfg, role, provider, model)
    \/ \E passCfg \in BOOLEAN, role \in RoleNames,
          tried \in SeqsUpTo(Pairs, MaxTried) :
            ResolveWithRetry(passCfg, role, tried)
    \/ RetryAfterFailure
    \/ \E role \in RoleNames \cup {None},
          provider \in Providers \cup {None}, model \in Models \cup {None} :
            CliMain(FALSE, role, provider, model)

Spec == Init /\ [][Next]_vars

\* ------------------------------------------------------ preflight runs
\* A direct call of validate_environment(config).
ValidateEnvironment(passCfg) ==
    /\ pc = "idle"
    /\ pc' = "done"
    /\ call' = [op |-> "validate", passCfg |-> passCfg, preflight |-> FALSE,
                role |-> None, provider |-> None, model |-> None,
                tried |-> <<>>, returns |-> 0]
    /\ pre' = validate_environment(passCfg)
    /\ UNCHANGED <<config, fileState, env, ollama, out, cli, bot, req>>

\* The catalogs of the preflight runs: providers with and without
\* environment references, and a few role policies.
PreflightAnthropicCfgs ==
    {AbsentProvider,
     ProviderEntry(FALSE, {"claude-x"}, <<"ANTHROPIC_API_KEY">>, None),
     ProviderEntry(TRUE, {"claude-x"}, <<>>, None),
     ProviderEntry(TRUE, {"claude-x"}, <<"ANTHROPIC_API_KEY">>, None),
     ProviderEntry(TRUE, {"claude-x"}, <<"ANTHROPIC_TOKEN", "ANTHROPIC_API_KEY">>, None)}
PreflightOllamaCfgs ==
    {ProviderEntry(e, {"qwen"}, <<>>, b) :
        e \in BOOLEAN, b \in {None, "OLLAMA_BASE_URL"}}
PreflightAceCfgs ==
    {AbsentRole,
     [present |-> TRUE, primary |-> <<"anthropic", "claude-x">>,
      fallbacks |-> <<>>],
     [present |-> TRUE, primary |-> <<"anthropic", "claude-x">>,
      fallbacks |-> <<<<"ollama", "qwen">>>>],
     [present |-> TRUE, primary |-> <<"ollama", "qwen">>,
      fallbacks |-> <<<<None, "qwen">>>>],
     [present |-> TRUE, primary |-> <<None, "qwen">>,
      fallbacks |-> <<<<"ollama", "qwen">>>>]}
PreflightCatalogs ==
    {[providers |-> [p \in Providers |->
                        IF p = "anthropic" THEN a ELSE o],
      roles |-> [r \in RoleNames |-> IF r = "ace" THEN ra ELSE rw],
      defaultRole |-> None] :
        a \in PreflightAnthropicCfgs, o \in PreflightOllamaCfgs,
        ra \in PreflightAceCfgs, rw \in WorkerCfgs}

InitPreflight ==
    /\ \/ fileState = "ok" /\ config \in PreflightCatalogs
       \/ fileState \in {"missing", "invalid"} /\ config = MissingCatalog
    /\ env \in EnvChoices
    /\ ollama \in ProbeOutcomes
    /\ pc = "idle"
    /\ call = NoCall
    /\ out = NoOutcome
    /\ pre = NoPreflight
    /\ cli = NoExit
    /\ bot = NoBot
    /\ req = [r \in Requests |-> IdleRequest]

NextPreflight ==
    \/ \E passCfg \in BOOLEAN : ValidateEnvironment(passCfg)
    \/ \E preflight \in BOOLEAN, role \in {None, "ace"} :
            CliMain(preflight, role, None, None)
    \/ \E passCfg \in BOOLEAN, role \in RoleNames \cup {None} :
            ResolveRuntimeModel(passCfg, role, None, None)

SpecPreflight == InitPreflight /\ [][NextPreflight]_vars

\* ------------------------------------------------------------ CLI runs
\* scripts/resolve_model.py run once, in either mode, over the catalogs,
\* environments and probe outcomes of the preflight runs.
NextCli ==
    \E preflight \in BOOLEAN, role \in {None, "ace"},
       provider \in {None, "ollama"}, model \in {None, "qwen"} :
        CliMain(preflight, role, provider, model)

SpecCli == InitPreflight /\ [][NextCli]_vars

\* --------------------------------------------------------------- bot runs
InitBot ==
    /\ \/ fileState = "ok" /\ config \in BotCatalogs
       \/ fileState = "missing" /\ config = MissingCatalog
    /\ bot \in [role : {"ace"}, anthropic_key : {"", "key"},
                alert_webhook : WebhookStates]
    /\ req = [r \in Requests |-> IdleRequest]
    /\ env = GoodEnv
    /\ ollama = "ok"
    /\ pc = "idle"
    /\ call = NoCall
    /\ out = NoOutcome
    /\ pre = NoPreflight
    /\ cli = NoExit

NextBot ==
    \/ \E r \in Requests, addressed \in BOOLEAN : OnMessage(r, addressed)
    \/ \E r \in Requests, api_ok \in BOOLEAN : InvokeCandidate(r, api_ok)
    \/ \E r \in Requests : AllCandidatesFailed(r)
    \/ \E r \in Requests : OnMessageResume(r)

SpecBot == InitBot /\ [][NextBot]_vars

\* ------------------------------------------------ bounded-retry runs
\* The bot handles its messages, then a caller drives resolve_with_retry
\* over the same catalog.  The two read the catalog and share no other
\* state, so running one after the other loses none of their behaviours.
RetryCatalogs ==
    BotCatalogs
    \cup {[providers |-> [p \in Providers |->
                            IF p = "anthropic"
                            THEN ProviderEntry(TRUE, {"claude-x", "qwen"},
                                               <<"ANTHROPIC_API_KEY">>, None)
                            ELSE ProviderEntry(TRUE, {"qwen"}, <<>>,
                                               "OLLAMA_BASE_URL")],
           roles |-> [r \in RoleNames |->
                        [present |-> TRUE,
                         primary |-> <<"anthropic", "claude-x">>,
                         fallbacks |-> IF r = "ace"
                                       THEN <<<<"anthropic", "qwen">>,
                                              <<"ollama", "qwen">>>>
                                       ELSE <<>>]],
           defaultRole |-> None]}

InitRetry ==
    /\ \/ fileState = "ok" /\ config \in RetryCatalogs
       \/ fileState = "missing" /\ config = MissingCatalog
    /\ bot \in [role : {"ace"}, anthropic_key : {"", "key"},
                alert_webhook : {"ok"}]
    /\ req = [r \in Requests |-> IdleRequest]
    /\ env = GoodEnv
    /\ ollama = "ok"
    /\ pc = "idle"
    /\ call = NoCall
    /\ out = NoOutcome
    /\ pre = NoPreflight
    /\ cli = NoExit

NextRetry ==
    \/ NextBot
    \/ /\ \A r \in Requests : req[r].pc = "done"
       /\ \E passCfg \in BOOLEAN, role \in RoleNames,
             tried \in SeqsUpTo(Pairs, MaxTried) :
               ResolveWithRetry(passCfg, role, tried)
    \/ RetryAfterFailure

SpecRetry == InitRetry /\ [][NextRetry]_vars

\* =============================================================== claims
\* The catalog's own words for the claims below.

\* A pair is usable: its provider is listed and enabled, and lists the model.
Usable(pair) ==
    /\ pair[1] \in Providers
    /\ config.providers[pair[1]].present
    /\ config.providers[pair[1]].enabled
    /\ pair[2] \in config.providers[pair[1]].models

\* The catalog the call reads is there: passed in, or loaded from the file.
CatalogRead == call.passCfg \/ fileState = "ok"

RoleDeclared(role) == role \in RoleNames /\ config.roles[role].present

\* A role's candidates as declared: the primary, then the fallback entries
\* that name both a provider and a model, in declared order.
RECURSIVE CompleteEntries(_)
CompleteEntries(entries) ==
    IF entries = <<>> THEN <<>>
    ELSE (IF Head(entries)[1] # "" /\ Head(entries)[2] # ""
          THEN <<Head(entries)>> ELSE <<>>)
         \o CompleteEntries(Tail(entries))

DeclaredChain(role) ==
    <<config.roles[role].primary>> \o CompleteEntries(config.roles[role].fallbacks)

PrimaryComplete(role) ==
    config.roles[role].primary[1] # "" /\ config.roles[role].primary[2] # ""

\* k (counted from 0 at the primary) is the first usable candidate.
FirstUsableAt(chain, k) ==
    /\ k + 1 \in DOMAIN chain
    /\ Usable(chain[k + 1])
    /\ \A j \in 1..k : ~Usable(chain[j])

FallbackTags == <<"fallback_1", "fallback_2", "fallback_3", "fallback_4">>

ResolvedPair == <<out.value.provider, out.value.model>>

\* A finished resolve_runtime_model call for a named role, made directly or
\* by the CLI.
RoleCall ==
    /\ pc = "done" /\ call.op \in {"resolve", "cli"} /\ ~call.preflight
    /\ ~(call.op = "cli" /\ PartialPair(call.provider, call.model))
    /\ call.role \in RoleNames

NoExplicit == call.provider = None /\ call.model = None
ExplicitPair == call.provider # None /\ call.model # None

\* C1: a role whose primary is enabled and listed resolves, with no explicit
\* pair, to exactly the primary pair tagged "primary", and no candidate at
\* chain index >= 1 is probed.
C1_PrimaryUsable ==
    (/\ RoleCall /\ NoExplicit /\ CatalogRead
     /\ RoleDeclared(call.role)
     /\ Usable(config.roles[call.role].primary))
    => /\ out.status = "returned"
       /\ out.value = [provider |-> config.roles[call.role].primary[1],
                       model |-> config.roles[call.role].primary[2],
                       role |-> call.role, source |-> "primary"]
       /\ out.probed = <<config.roles[call.role].primary>>

\* C1 witness: the primary was returned although a usable fallback, never
\* probed, follows it.
C1_Witness ==
    /\ RoleCall /\ NoExplicit
    /\ out.status = "returned" /\ out.value.source = "primary"
    /\ Len(DeclaredChain(call.role)) = 3
    /\ Usable(DeclaredChain(call.role)[2])
    /\ DeclaredChain(call.role)[2] # DeclaredChain(call.role)[1]

\* C2: when the primary is unusable and candidate k >= 1 of the chain is
\* the first usable one, resolution returns exactly that pair tagged
\* "fallback_k", having probed candidates 0..k in declared order and none
\* after k.
C2_FirstUsableFallback ==
    \A k \in 1..(MaxFallbacks + 1) :
        (/\ RoleCall /\ NoExplicit /\ CatalogRead
         /\ RoleDeclared(call.role) /\ PrimaryComplete(call.role)
         /\ FirstUsableAt(DeclaredChain(call.role), k))
        => /\ out.status = "returned"
           /\ out.value = [provider |-> DeclaredChain(call.role)[k + 1][1],
                           model |-> DeclaredChain(call.role)[k + 1][2],
                           role |-> call.role, source |-> FallbackTags[k]]
           /\ out.probed = SubSeq(DeclaredChain(call.role), 1, k + 1)

\* C2 witness: the second fallback is returned after two unusable
\* candidates were probed.
C2_Witness ==
    /\ RoleCall /\ NoExplicit
    /\ out.status = "returned" /\ out.value.source = "fallback_2"
    /\ Len(out.probed) = 3

\* C4: a usable explicit pair is returned tagged "explicit", and the role's
\* chain is neither built nor probed.
C4_ExplicitShortCircuits ==
    (/\ pc = "done" /\ call.op \in {"resolve", "cli"} /\ ~call.preflight
     /\ ExplicitPair /\ CatalogRead
     /\ Usable(<<call.provider, call.model>>))
    => /\ out.status = "returned"
       /\ ResolvedPair = <<call.provider, call.model>>
       /\ out.value.source = "explicit"
       /\ ~out.chainBuilt
       /\ out.probed = <<>>

\* C4 witness: the explicit pair was returned although the role's primary
\* is another, usable pair.
C4_Witness ==
    /\ RoleCall /\ ExplicitPair
    /\ out.status = "returned" /\ out.value.source = "explicit"
    /\ RoleDeclared(call.role)
    /\ Usable(config.roles[call.role].primary)
    /\ config.roles[call.role].primary # <<call.provider, call.model>>

\* C5 (as claimed): when the explicit pair is unusable, the role's primary
\* is neither probed nor returned; only the role's fallbacks are tried.
C5_PrimaryNotRetried ==
    (/\ pc = "done" /\ call.op = "resolve"
     /\ ExplicitPair /\ CatalogRead
     /\ ~Usable(<<call.provider, call.model>>)
     /\ RoleDeclared(SelectedRole(config, call.role)))
    => LET primary == config.roles[SelectedRole(config, call.role)].primary
       IN /\ \A i \in DOMAIN out.probed : out.probed[i] # primary
          /\ out.status = "returned" => ResolvedPair # primary

\* C6: resolve_with_retry never returns a pair of tried, and raises
\* ModelResolutionError when every pair of the role's chain is in tried or
\* unusable.
C6_RetryExcludesTried ==
    (pc = "done" /\ call.op = "retry" /\ CatalogRead)
    => /\ out.status = "returned" => ResolvedPair \notin ToSet(call.tried)
       /\ (\/ ~RoleDeclared(call.role)
           \/ \A i \in DOMAIN DeclaredChain(call.role) :
                 \/ DeclaredChain(call.role)[i] \in ToSet(call.tried)
                 \/ ~Usable(DeclaredChain(call.role)[i]))
          => out.status = "raised" /\ out.err = "ModelResolutionError"

\* C6 witness: the retry raised with every pair of a three-candidate chain
\* tried, all of them usable.
C6_Witness ==
    /\ pc = "done" /\ call.op = "retry"
    /\ out.status = "raised"
    /\ RoleDeclared(call.role) /\ PrimaryComplete(call.role)
    /\ Cardinality(ToSet(DeclaredChain(call.role))) >= 2
    /\ \A i \in DOMAIN DeclaredChain(call.role) :
          /\ Usable(DeclaredChain(call.role)[i])
          /\ DeclaredChain(call.role)[i] \in ToSet(call.tried)

\* C10 (as claimed): a call naming exactly one of provider / model is
\* rejected before a chain is built or a candidate probed, whoever the
\* caller is, and never ends in a resolution.
C10_PartialPairRejected ==
    (/\ pc = "done" /\ call.op \in {"resolve", "cli"} /\ ~call.preflight
     /\ PartialPair(call.provider, call.model))
    => /\ out.status # "returned"
       /\ ~out.chainBuilt
       /\ out.probed = <<>>

\* Every role the catalog declares would resolve, called right now with the
\* catalog the validation read.
EveryDeclaredRoleResolves ==
    \A r \in RoleNames :
        config.roles[r].present
        => resolve_runtime_model(call.passCfg, r, None, None).status = "returned"

ValidateCall == pc = "done" /\ call.op = "validate"

\* C7 (as claimed): validate_environment returns an empty list only if
\* every declared role would resolve; a declared role all of whose
\* candidates are disabled or unlisted produces at least one issue.
C7_EmptyIffRolesResolve ==
    (ValidateCall /\ pre.status = "returned")
    => /\ pre.failures = <<>> => EveryDeclaredRoleResolves
       /\ (\E r \in RoleNames :
              /\ config.roles[r].present /\ PrimaryComplete(r)
              /\ \A i \in DOMAIN DeclaredChain(r) : ~Usable(DeclaredChain(r)[i]))
          => pre.failures # <<>>

\* C8 (as claimed): validate_environment never raises; it returns its list
\* of issues whatever the catalog file, the environment and the probe.
C8_ValidateNeverRaises ==
    (pc = "done" /\ (call.op = "validate" \/ (call.op = "cli" /\ call.preflight)))
    => pre.status = "returned"

\* C9 (as claimed): with ace's primary (anthropic, claude-x) disabled, its
\* only fallback (ollama, qwen) enabled and listed, and ollama unreachable,
\* resolve(role = ace) raises the exhaustion error.
C9_UnreachableOllamaExhausts ==
    (/\ RoleCall /\ call.role = "ace" /\ NoExplicit /\ CatalogRead
     /\ config.roles["ace"].present
     /\ config.roles["ace"].primary = <<"anthropic", "claude-x">>
     /\ config.roles["ace"].fallbacks = <<<<"ollama", "qwen">>>>
     /\ config.providers["anthropic"].present
     /\ ~config.providers["anthropic"].enabled
     /\ Usable(<<"ollama", "qwen">>)
     /\ ollama \in {"urlerror", "timeout"})
    => out.status = "raised" /\ out.err = "ModelResolutionError"

\* Request r asked every candidate of the role's chain and each failed.
EveryCandidateFailed(r) ==
    /\ req[r].pc = "done"
    /\ role_candidates(bot.role).status = "returned"
    /\ req[r].errors = role_candidates(bot.role).candidates

\* C3 (as claimed): for a request in which every candidate fails,
\* send_discord_alert is invoked exactly once, with details naming every
\* attempted candidate.
C3_ExactlyOneAlert ==
    \A r \in Requests :
        EveryCandidateFailed(r)
        => /\ Len(req[r].alerts) = 1
           /\ req[r].alerts[1].errors = req[r].invoked

\* C11 (as claimed): a call naming a role the catalog does not declare is
\* rejected before any probing, a usable explicit pair given with it or not;
\* no ResolvedModel carrying an undeclared role is returned.
C11_UnknownRoleRejected ==
    (/\ RoleCall /\ CatalogRead /\ ~RoleDeclared(call.role))
    => /\ out.status = "raised"
       /\ out.probed = <<>>

\* C12: every ResolvedModel resolve_with_retry returns is tagged
\* "retry_fallback", whatever the chain position of the pair returned (the
\* primary included), and carries the requested role.
C12_RetryFallbackTag ==
    (pc = "done" /\ call.op = "retry" /\ out.status = "returned")
    => /\ out.value.source = "retry_fallback"
       /\ out.value.role = call.role

\* C12 witness: the retry returned the role's primary, tried holding
\* another pair of the chain.
C12_Witness ==
    /\ pc = "done" /\ call.op = "retry" /\ out.status = "returned"
    /\ out.value.source = "retry_fallback"
    /\ ResolvedPair = config.roles[call.role].primary
    /\ call.tried # <<>>
    /\ \E i \in DOMAIN DeclaredChain(call.role) :
          i > 1 /\ DeclaredChain(call.role)[i] \in ToSet(call.tried)

\* The length of a role's chain as the catalog declares it; 0 when the
\* catalog cannot be read or the role has no chain.
ChainLength(catalogRead, role) ==
    IF catalogRead /\ RoleDeclared(role) /\ PrimaryComplete(role)
    THEN Len(DeclaredChain(role))
    ELSE 0

\* The number of complete entries (primary and fallbacks) the catalog file
\* declares for the bot's role.
BotChainLength ==
    IF fileState = "ok" /\ RoleDeclared(bot.role)
    THEN Len(CompleteEntries(<<config.roles[bot.role].primary>>
                             \o config.roles[bot.role].fallbacks))
    ELSE 0

\* C13: the caller-driven retry loop gets at most len(chain) pairs back
\* before resolve_with_retry raises, and complete_with_fallback invokes at
\* most len(chain) candidates for one request.
C13_RetryBoundedByChain ==
    /\ call.op = "retry"
       => call.returns <= ChainLength(CatalogRead, call.role)
    /\ \A r \in Requests :
          /\ Len(req[r].invoked) <= BotChainLength
          /\ req[r].idx <= BotChainLength

\* C13 witness: each request invoked all three candidates of the chain and
\* ended in the exhaustion error, and the retry loop then raised after
\* returning each of the three pairs of the chain once.
C13_Witness ==
    /\ \A r \in Requests :
          /\ req[r].pc = "done" /\ req[r].status = "raised"
          /\ Len(req[r].invoked) = 3
    /\ call.op = "retry" /\ out.status = "raised"
    /\ call.returns = 3
    /\ call.returns = ChainLength(CatalogRead, call.role)

\* C14 (as claimed): whatever the webhook post ends in, send_discord_alert
\* returns instead of raising, complete_with_fallback raises its own
\* ModelCallError when every candidate failed, and on_message ends without
\* an unhandled exception.
C14_AlertFailureSwallowed ==
    \A r \in Requests :
        EveryCandidateFailed(r)
        => /\ \A i \in DOMAIN req[r].alerts :
                 req[r].alerts[i].result.status = "returned"
           /\ req[r].err = "ModelCallError"
           /\ req[r].unhandled = ""

\* A finished resolver call (resolve_runtime_model or resolve_with_retry)
\* that ended in the exhaustion error.
Exhausted ==
    /\ pc = "done" /\ call.op \in {"resolve", "cli", "retry"}
    /\ out.status = "raised"
    /\ out.msg[1] \in {"no_available_model", "exhausted"}

\* C15 (as claimed): the exhaustion error carries the role name and the
\* list of all attempted pairs, in the order they were attempted.
C15_ExhaustionCarriesAttempts ==
    Exhausted
    => /\ out.msg[2] = (IF call.op = "retry" THEN call.role
                        ELSE SelectedRole(config, call.role))
       /\ ExceptionAttempted(out) = out.probed

\* No pair occurs twice in a sequence.
NoDuplicates(seq) ==
    \A i, j \in DOMAIN seq : i # j => seq[i] # seq[j]

\* C16 (as claimed): within one resolution no pair is probed more than
\* once, the role policy listing a pair several times or the explicit
\* request being a pair of the chain notwithstanding.
C16_NoPairProbedTwice ==
    (pc = "done" /\ call.op \in {"resolve", "cli", "retry"})
    => /\ NoDuplicates(out.probed)
       /\ out.explicitProbed
          => \A i \in DOMAIN out.probed :
                out.probed[i] # <<call.provider, call.model>>

\* C17 (as claimed): with no explicit pair, no role and no default role
\* in the catalog (whose defaults declare no provider/model either, none
\* being read), the resolution fails; it resolves no role the defaults did
\* not name.
C17_NoTargetWithoutDefaults ==
    (/\ pc = "done" /\ call.op \in {"resolve", "cli"} /\ ~call.preflight
     /\ call.role = None /\ NoExplicit /\ CatalogRead
     /\ config.defaultRole = None)
    => out.status = "raised"

\* C18 (as claimed): a call giving only a model string that names an alias
\* of the catalog, the alias's pair being usable, returns that pair.
C18_AliasResolved ==
    (/\ pc = "done" /\ call.op = "resolve" /\ CatalogRead
     /\ call.provider = None /\ call.model \in AliasNames
     /\ RoleDeclared(SelectedRole(config, call.role))
     /\ Usable(Aliases[call.model]))
    => /\ out.status = "returned"
       /\ ResolvedPair = Aliases[call.model]

\* The environment variables the enabled providers of the catalog reference.
ReferencedEnvs ==
    UNION {ToSet(config.providers[p].auth_env)
           \cup (IF config.providers[p].base_url_env = None THEN {}
                 ELSE {config.providers[p].base_url_env}) :
           p \in {q \in Providers : config.providers[q].present
                                      /\ config.providers[q].enabled}}

EnvMissing(name) == env[name] \in {Unset, ""}

\* C19 (as claimed): validate_environment reports every missing variable
\* an enabled provider references, and reports no missing variable that no
\* enabled provider references.
C19_OnlyReferencedEnvsReported ==
    (ValidateCall /\ pre.status = "returned")
    => /\ \A n \in ReferencedEnvs :
             EnvMissing(n)
             => \E i \in DOMAIN pre.failures :
                   /\ pre.failures[i][1] \in {"missing_env", "provider_env"}
                   /\ n \in {pre.failures[i][2], pre.failures[i][3]}
       /\ \A i \in DOMAIN pre.failures :
             /\ pre.failures[i][1] = "missing_env"
                => pre.failures[i][2] \in ReferencedEnvs
             /\ pre.failures[i][1] = "provider_env"
                => /\ pre.failures[i][3] \in ReferencedEnvs
                   /\ config.providers[pre.failures[i][2]].enabled

\* validate_environment reached the reachability request: the catalog was
\* read, the timeout parsed, and ollama is enabled with its base URL set.
OllamaProbed ==
    /\ pc = "done"
    /\ call.op = "validate" \/ (call.op = "cli" /\ call.preflight)
    /\ CatalogRead
    /\ IsIntText(GetenvDefault("INFERENCE_TIMEOUT", "10"))
    /\ config.providers["ollama"].present /\ config.providers["ollama"].enabled
    /\ config.providers["ollama"].base_url_env # None
    /\ ~EnvMissing(config.providers["ollama"].base_url_env)

\* C20 (as claimed): whatever the reachability request ends in,
\* _check_ollama_connectivity returns (None or an error text) and
\* validate_environment returns its list, the failed probe reported in it.
C20_ProbeFailureNeverRaises ==
    OllamaProbed
    => /\ _check_ollama_connectivity(ollama).status = "returned"
       /\ pre.status = "returned"
       /\ ollama # "ok"
          => \E i \in DOMAIN pre.failures : pre.failures[i][1] = "ollama"

\* The bot role's candidates as the catalog file declares them: the complete
\* primary, then the complete fallbacks, in declared order.
BotDeclaredChain ==
    IF fileState = "ok" /\ RoleDeclared(bot.role)
    THEN CompleteEntries(<<config.roles[bot.role].primary>>
                         \o config.roles[bot.role].fallbacks)
    ELSE <<>>

\* C21: complete_with_fallback invokes the role's candidates in declared
\* order, each chain position at most once: the candidates invoked are a
\* prefix of the declared chain, every one but a successful last is recorded
\* as failed, and an answer comes from the last candidate invoked, after
\* which none is invoked.
C21_InvokesInDeclaredOrder ==
    \A r \in Requests :
        /\ Len(req[r].invoked) <= Len(BotDeclaredChain)
        /\ req[r].invoked = SubSeq(BotDeclaredChain, 1, Len(req[r].invoked))
        /\ IF req[r].status = "returned"
           THEN /\ req[r].invoked # <<>>
                /\ req[r].selected = req[r].invoked[Len(req[r].invoked)]
                /\ req[r].errors
                      = SubSeq(req[r].invoked, 1, Len(req[r].invoked) - 1)
                /\ req[r].pc \in {"resume", "done"}
           ELSE req[r].errors = req[r].invoked

\* C21 witness: a request was answered by the third candidate of its chain
\* after the first two, different from it, failed.
C21_Witness ==
    \E r \in Requests :
        /\ req[r].pc = "done" /\ req[r].status = "returned"
        /\ Len(req[r].invoked) = 3
        /\ req[r].selected = BotDeclaredChain[3]
        /\ req[r].selected # BotDeclaredChain[1]

\* C22 (as claimed): whenever complete_with_fallback raises, on_message
\* sends the failure message, alerts the operators and returns without an
\* unhandled exception.
C22_ExhaustionRecoverable ==
    \A r \in Requests :
        (req[r].pc = "done" /\ req[r].status = "raised")
        => /\ req[r].sent = <<"failure">>
           /\ req[r].alerts # <<>>
           /\ req[r].alerts[Len(req[r].alerts)].title = "ACE Discord Request Failed"
           /\ req[r].unhandled = ""

\* C23: every ResolvedModel returned by resolve_runtime_model or
\* resolve_with_retry names a pair whose provider entry exists, is enabled
\* and lists the model.
C23_ReturnedPairUsable ==
    (/\ pc = "done" /\ call.op \in {"resolve", "cli", "retry"}
     /\ out.status = "returned")
    => Usable(ResolvedPair)

\* C23 witness: a resolution returned a usable pair after probing an
\* unusable pair of an enabled provider that does not list the model.
C23_Witness ==
    /\ pc = "done" /\ call.op \in {"resolve", "retry"}
    /\ out.status = "returned" /\ Usable(ResolvedPair)
    /\ Len(out.probed) >= 2
    /\ out.probed[1][1] \in Providers
    /\ config.providers[out.probed[1][1]].enabled
    /\ ~Usable(out.probed[1])

\* C24 (as claimed): every candidate complete_with_fallback hands to
\* invoke_candidate belongs to an enabled provider that lists its model.
C24_InvokedCandidatesUsable ==
    \A r \in Requests :
        \A i \in DOMAIN req[r].invoked : Usable(req[r].invoked[i])

\* C25 (as claimed): role_candidates and _candidate_chain agree on the
\* bot's role: once a request has called role_candidates, either both
\* returned the same sequence of pairs or both raised.
C25_ChainBuildersAgree ==
    \A r \in Requests :
        (req[r].pc = "loop" /\ fileState = "ok")
        => /\ _candidate_chain(config, bot.role).status = "returned"
           /\ _candidate_chain(config, bot.role).chain
                 = role_candidates(bot.role).candidates

\* Two resolver outcomes agree: both raised the same error class, or both
\* returned the same (provider, model) pair for the same role.
SameResolution(a, b) ==
    /\ a.status = b.status
    /\ a.status = "raised" => a.err = b.err
    /\ a.status = "returned"
       => /\ a.value.provider = b.value.provider
          /\ a.value.model = b.value.model
          /\ a.value.role = b.value.role

\* C26: for a declared role, resolve_with_retry(role, tried = []) and
\* resolve_runtime_model(role) with no explicit pair return the same pair,
\* or both raise; only the source tag differs.
C26_RetryAgreesWithPlain ==
    /\ (/\ pc = "done" /\ call.op = "retry" /\ call.tried = <<>>
        /\ CatalogRead /\ RoleDeclared(call.role))
       => /\ SameResolution(out, resolve_runtime_model(call.passCfg, call.role,
                                                       None, None))
          /\ out.status = "returned" => out.value.source = "retry_fallback"
    /\ (/\ pc = "done" /\ call.op = "resolve" /\ NoExplicit
        /\ CatalogRead /\ RoleDeclared(call.role))
       => /\ SameResolution(out, resolve_with_retry(call.passCfg, call.role, <<>>))
          /\ out.status = "returned" => out.value.source # "retry_fallback"

\* C26 witness: the retry with nothing excluded returned the second
\* fallback of the role, as the plain resolution does.
C26_Witness ==
    /\ pc = "done" /\ call.op = "retry" /\ call.tried = <<>>
    /\ out.status = "returned"
    /\ Len(out.probed) = 3
    /\ resolve_runtime_model(call.passCfg, call.role, None, None).value.source
          = "fallback_2"

\* C27: each request's record of failed candidates is its own: a request
\* stands at the chain position given by its own failures, whatever
\* failed in the other requests, and the first candidate it invokes is the
\* first of the chain.
C27_FallbackStatePerRequest ==
    \A r \in Requests :
        /\ req[r].idx = Len(req[r].errors)
        /\ \A i \in DOMAIN req[r].errors : req[r].errors[i] = req[r].invoked[i]
        /\ req[r].invoked # <<>> => req[r].invoked[1] = BotDeclaredChain[1]
        /\ req[r].pc = "idle" => req[r].invoked = <<>> /\ req[r].idx = 0

\* C27 witness: with two requests running at once, one request was
\* answered by the chain's first candidate while that same candidate had
\* already failed in the other request, which is still in its loop.
C27_Witness ==
    \E r, q \in Requests :
        /\ r # q
        /\ req[q].pc = "loop" /\ req[q].errors # <<>>
        /\ req[r].status = "returned"
        /\ req[r].selected = req[q].errors[1]
        /\ req[r].selected = BotDeclaredChain[1]
        /\ Len(req[r].invoked) = 1

CliRun == pc = "done" /\ call.op = "cli"

\* C28: the CLI exits 0 only on success.  In preflight mode the exit is 0
\* iff validate_environment returned no failures, else 1; in resolve mode
\* it is 2 for a partial explicit pair, 1 when the resolution raises
\* ModelResolutionError, and 0 only when a ResolvedModel was produced and
\* printed.
C28_ExitCodes ==
    CliRun
    => /\ cli.code \in {0, 1, 2}
       /\ call.preflight
          => /\ cli.code = 0 <=> (pre.status = "returned" /\ pre.failures = <<>>)
             /\ cli.code # 0 => cli.code = 1
             /\ cli.code = 0 => cli.printed = "PREFLIGHT OK"
       /\ ~call.preflight
          => /\ PartialPair(call.provider, call.model)
                => cli.code = 2 /\ out.status = "none"
             /\ (out.status = "raised" /\ out.err = "ModelResolutionError")
                => cli.code = 1
             /\ cli.code = 0
                => /\ out.status = "returned"
                   /\ cli.printed = "RESOLVED"
                   /\ cli.uncaught = ""
             /\ cli.code = 2 => PartialPair(call.provider, call.model)

\* C28 witness: a resolve-mode run whose resolution raised
\* ModelResolutionError after probing the role's chain, ending with exit
\* code 1 and the error printed.
C28_Witness ==
    /\ CliRun /\ ~call.preflight
    /\ out.status = "raised" /\ out.err = "ModelResolutionError"
    /\ out.probed # <<>>
    /\ cli.code = 1 /\ cli.printed = "ERROR"

====
